---- MODULE Spec2Model ----
(***************************************************************************)
(* useray: the client lifecycle of core.py.  ClientManager keeps the       *)
(* metadata records (clients.json), V2rayList keeps the ids of the proxy   *)
(* server's access entries (inbounds[0].settings.clients of config.json).  *)
(* The model holds both in-memory containers and both persisted documents, *)
(* a clock, and whether the process is running.                            *)
(***************************************************************************)
EXTENDS Integers, Sequences, FiniteSets, TLC

\* ------------------------------------------------------------------ bounds
\* most access entries the proxy document holds before the first start
MaxDocInit == 2
\* steps of one behaviour: calls, starts of the process, clock steps
MaxSteps == 5

\* --------------------------------------------------------------- constants
ONE_DAY == 86400
ONE_WEEK == 604800
ONE_MONTH == 2592000
THREE_MONTHS == 7776000
\* Client.__init__'s default level
DefaultLevel == 1
\* the "alterId" V2rayList.add writes into a new access entry
AlterId == 0

\* the clock at the first state, seconds since the epoch
Epoch0 == 1700000000
\* the clock advances in steps of one month
TickStep == ONE_MONTH

Ids == {"a", "b"}
Levels == {0, 1}
Names == {"n1"}
\* the duration of duration_menu that add_menu's records are given
MenuDurations == {ONE_WEEK}
\* the extensions the caller of extend_client asks for
Deltas == {ONE_WEEK, ONE_MONTH}
\* the levels of the access entries the proxy document holds before the first start
ForeignLevels == {0}

Range(s) == {s[i] : i \in 1..Len(s)}

\* ------------------------------------------------------------------ Client
\* Client.__init__ at clock t
Client(name, id, start_date, duration, level, t) ==
    [name |-> name, id |-> id, level |-> level, start_date |-> start_date,
     duration |-> duration, end_date |-> start_date + duration,
     is_expired |-> t > start_date + duration]

update_expiration(c, t) == [c EXCEPT !.is_expired = t > c.end_date]

extend(c, duration, t) ==
    LET d == c.duration + duration
    IN  [c EXCEPT !.duration = d,
                  !.end_date = c.start_date + d,
                  !.is_expired = t > c.start_date + d]

stop(c, t) == update_expiration([c EXCEPT !.end_date = t - 1], t)

resume(c, t) == update_expiration([c EXCEPT !.end_date = c.start_date + c.duration], t)

\* Client.encode: the object's __dict__, every field of it, as json.dump
\* writes it.  The two cached fields are optional in the file: a set with
\* the value, or the empty set when the field is missing.
encode(c) ==
    [name |-> c.name, id |-> c.id, level |-> c.level,
     start_date |-> c.start_date, duration |-> c.duration,
     end_date |-> {c.end_date}, is_expired |-> {c.is_expired}]

\* json_to_client: one value of the file's mapping, read at clock t
decode(v, t) ==
    LET c0 == Client(v.name, v.id, v.start_date, v.duration, v.level, t)
        c1 == IF v.end_date # {}
              THEN [c0 EXCEPT !.end_date = CHOOSE x \in v.end_date : TRUE]
              ELSE c0
    IN  IF v.is_expired # {}
        THEN [c1 EXCEPT !.is_expired = CHOOSE x \in v.is_expired : TRUE]
        ELSE c1

json_to_client(data, t) == [k \in DOMAIN data |-> decode(data[k], t)]

\* ClientManager.save: the whole mapping, rewritten
save(cl) == [k \in DOMAIN cl |-> encode(cl[k])]

\* --------------------------------------------------------------- V2rayList
\* V2rayList.load: the ids of the document's access entries, in order
V2rayList_load(doc) == [i \in 1..Len(doc) |-> doc[i].id]

\* list.remove / the enumerate-del-break loop: drop the first match
RemoveFirstId(lst, id) ==
    IF id \notin Range(lst) THEN lst
    ELSE LET i == CHOOSE k \in 1..Len(lst) :
                    lst[k] = id /\ \A j \in 1..(k-1) : lst[j] # id
         IN  SubSeq(lst, 1, i-1) \o SubSeq(lst, i+1, Len(lst))

\* a removal that drops every entry of the id from the document
RemoveAllEntries(doc, id) ==
    IF doc = <<>> THEN doc
    ELSE LET F[i \in 0..Len(doc)] ==
                 IF i = 0 THEN <<>>
                 ELSE IF doc[i].id = id THEN F[i-1] ELSE Append(F[i-1], doc[i])
         IN  F[Len(doc)]

RemoveFirstEntry(doc, id) ==
    IF \A k \in 1..Len(doc) : doc[k].id # id THEN doc
    ELSE LET i == CHOOSE k \in 1..Len(doc) :
                    doc[k].id = id /\ \A j \in 1..(k-1) : doc[j].id # id
         IN  SubSeq(doc, 1, i-1) \o SubSeq(doc, i+1, Len(doc))

\* V2rayList.add that appends to the in-memory list and leaves the document
\* unwritten
V2rayList_add_unwritten(lst, doc, client) ==
    IF client.id \notin Range(lst)
    THEN [list |-> Append(lst, client.id), doc |-> doc]
    ELSE [list |-> lst, doc |-> doc]

\* V2rayList.add: the in-memory list and the document after the call
V2rayList_add(lst, doc, client) ==
    IF client.id \notin Range(lst)
    THEN [list |-> Append(lst, client.id),
          doc  |-> Append(doc, [id |-> client.id, level |-> client.level,
                                alterId |-> AlterId])]
    ELSE [list |-> lst, doc |-> doc]

\* V2rayList.expire at clock t: raises ValueError for a client that is not
\* expired, else drops the first occurrence of the id from list and document
V2rayList_expire(lst, doc, client, t) ==
    IF ~update_expiration(client, t).is_expired
    THEN [list |-> lst, doc |-> doc, raised |-> TRUE]
    ELSE IF client.id \in Range(lst)
         THEN [list |-> RemoveFirstId(lst, client.id),
               doc  |-> RemoveFirstEntry(doc, client.id), raised |-> FALSE]
         ELSE [list |-> lst, doc |-> doc, raised |-> FALSE]

\* ----------------------------------------------------------- ClientManager
\* the loop of V2rayList.expire calls _sync and clear_expired make, one call
\* for each record of cl whose key is in ids
RECURSIVE expire_each(_, _, _, _, _)
expire_each(ids, cl, lst, doc, t) ==
    IF ids = {} THEN [list |-> lst, doc |-> doc]
    ELSE LET k == CHOOSE x \in ids : TRUE
             r == V2rayList_expire(lst, doc, cl[k], t)
         IN  expire_each(ids \ {k}, cl, r.list, r.doc, t)

\* a placeholder with Client.__init__'s default start_date, the time of the
\* import, in place of the time of the reconcile
placeholder_stale_start(id, t) ==
    Client("No name", id, Epoch0 - ONE_DAY, ONE_MONTH, DefaultLevel, t)

\* the record _sync makes for an id the proxy document alone holds
placeholder(id, t) == Client("No name", id, t, ONE_MONTH, DefaultLevel, t)

\* ClientManager.list_expired: every record's is_expired refreshed
refreshed(cl, t) == [k \in DOMAIN cl |-> update_expiration(cl[k], t)]

expired_keys(cl, t) == {k \in DOMAIN cl : update_expiration(cl[k], t).is_expired}

\* ClientManager._sync at clock t: the records, the list, the document and
\* the metadata file it leaves
sync(cl, lst, doc, t) ==
    LET cl1 == [k \in DOMAIN cl \cup Range(lst) |->
                   IF k \in DOMAIN cl THEN cl[k] ELSE placeholder(k, t)]
        cl2 == refreshed(cl1, t)
        r   == expire_each(expired_keys(cl1, t), cl2, lst, doc, t)
    IN  [clients |-> cl2, list |-> r.list, doc |-> r.doc, file |-> save(cl2)]

\* self._clients[key] = value
put(cl, key, value) ==
    [k \in DOMAIN cl \cup {key} |-> IF k = key THEN value ELSE cl[k]]

\* a del that is left out: every record is kept
without_kept(cl, keys) == cl

\* del self._clients[key]
without(cl, keys) == [k \in DOMAIN cl \ keys |-> cl[k]]

NoClients == [k \in {} |-> {}]

\* the records the menu builds for add_client (add_menu)
InputClients(t) ==
    {Client(n, i, t, d, l, t) : n \in Names, i \in Ids, d \in MenuDurations, l \in Levels}

\* the edits edit_menu makes to a stored record before update_client
Edited(c, t) ==
    {[c EXCEPT !.level = l] : l \in Levels} \cup {[c EXCEPT !.start_date = t]}

\* ------------------------------------------------------------------- state
VARIABLES
    now,           \* time.time()
    pc,            \* "down": no process; "up": the menu is waiting
    clients,       \* ClientManager._clients
    v2ray_list,    \* V2rayList._clients
    config_json,   \* the access entries of the proxy document on disk
    clients_json,  \* the mapping in clients.json on disk
    last,          \* the call that made this state, and how it ended
    steps          \* steps taken so far

vars == <<now, pc, clients, v2ray_list, config_json, clients_json, last, steps>>

\* one more step, while the behaviour has steps left
Step == steps < MaxSteps /\ steps' = steps + 1

Did(op, id, err) == [op |-> op, id |-> id, err |-> err, delta |-> 0]

DocEntries == [id : Ids, level : ForeignLevels, alterId : {AlterId}]

InitDocs ==
    UNION {[1..n -> DocEntries] : n \in 0..MaxDocInit}

\* a record of the metadata file without the optional cached fields
UncachedRecord(id) ==
    [name |-> "n1", id |-> id, level |-> DefaultLevel, start_date |-> Epoch0,
     duration |-> ONE_WEEK, end_date |-> {}, is_expired |-> {}]

InitFiles == {NoClients, [k \in {"a"} |-> UncachedRecord(k)]}

Init ==
    /\ now = Epoch0
    /\ pc = "down"
    /\ clients = NoClients
    /\ v2ray_list = <<>>
    /\ config_json \in InitDocs
    /\ clients_json \in InitFiles
    /\ DOMAIN clients_json \subseteq Range(V2rayList_load(config_json))
    /\ last = Did("none", "-", "none")
    /\ steps = 0

\* ClientManager.__init__ (V2rayList load, load, _sync), then main's
\* manager.load()
Construct ==
    /\ pc = "down"
    /\ Step
    /\ LET r == sync(json_to_client(clients_json, now),
                     V2rayList_load(config_json), config_json, now)
       IN  /\ clients' = json_to_client(r.file, now)
           /\ v2ray_list' = r.list
           /\ config_json' = r.doc
           /\ clients_json' = r.file
    /\ pc' = "up"
    /\ last' = Did("construct", "-", "none")
    /\ UNCHANGED now

add_client(client) ==
    /\ pc = "up"
    /\ Step
    /\ LET cl == put(clients, client.id, client)
           r  == V2rayList_add(v2ray_list, config_json, client)
       IN  /\ clients' = cl
           /\ v2ray_list' = r.list
           /\ config_json' = r.doc
           /\ clients_json' = save(cl)
    /\ last' = Did("add_client", client.id, "none")
    /\ UNCHANGED <<now, pc>>

\* add_client cut off after V2rayList.add has written the document and
\* before save
add_client_interrupted(client) ==
    /\ pc = "up"
    /\ Step
    /\ client.id \notin Range(v2ray_list)
    /\ config_json' = V2rayList_add(v2ray_list, config_json, client).doc
    /\ clients' = NoClients
    /\ v2ray_list' = <<>>
    /\ pc' = "down"
    /\ last' = Did("add_client_interrupted", client.id, "killed")
    /\ UNCHANGED <<now, clients_json>>

\* extend_client has no parameter for the extension the caller wants
\* (delta): Client.extend runs with its default
extend_client(id, delta) ==
    /\ pc = "up"
    /\ Step
    /\ IF id \notin DOMAIN clients
       THEN /\ last' = [Did("extend_client", id, "KeyError") EXCEPT !.delta = delta]
            /\ UNCHANGED <<clients, clients_json>>
       ELSE /\ clients' = put(clients, id, extend(clients[id], ONE_MONTH, now))
            /\ clients_json' = save(clients')
            /\ last' = [Did("extend_client", id, "none") EXCEPT !.delta = delta]
    /\ UNCHANGED <<now, pc, v2ray_list, config_json>>

\* stop_client with the stored record, as the menu calls it
stop_client(id) ==
    /\ pc = "up"
    /\ Step
    /\ IF id \notin DOMAIN clients
       THEN /\ last' = Did("stop_client", id, "KeyError")
            /\ UNCHANGED <<clients, v2ray_list, config_json, clients_json>>
       ELSE LET c  == stop(clients[id], now)
                cl == put(clients, id, c)
                r  == V2rayList_expire(v2ray_list, config_json, c, now)
            IN  /\ clients' = cl
                /\ v2ray_list' = r.list
                /\ config_json' = r.doc
                /\ IF r.raised
                   THEN /\ last' = Did("stop_client", id, "ValueError")
                        /\ UNCHANGED clients_json
                   ELSE /\ last' = Did("stop_client", id, "none")
                        /\ clients_json' = save(cl)
    /\ UNCHANGED <<now, pc>>

\* stop_client with a Client object of the id that is not the stored record:
\* the stored record is stopped, V2rayList.expire looks at the argument
stop_client_copy(client) ==
    /\ pc = "up"
    /\ Step
    /\ IF client.id \notin DOMAIN clients
       THEN /\ last' = Did("stop_client", client.id, "KeyError")
            /\ UNCHANGED <<clients, v2ray_list, config_json, clients_json>>
       ELSE LET cl == put(clients, client.id, stop(clients[client.id], now))
                r  == V2rayList_expire(v2ray_list, config_json, client, now)
            IN  /\ clients' = cl
                /\ v2ray_list' = r.list
                /\ config_json' = r.doc
                /\ IF r.raised
                   THEN /\ last' = Did("stop_client", client.id, "ValueError")
                        /\ UNCHANGED clients_json
                   ELSE /\ last' = Did("stop_client", client.id, "none")
                        /\ clients_json' = save(cl)
    /\ UNCHANGED <<now, pc>>

\* stop_client cut off after V2rayList.expire has written the document and
\* before save
stop_client_interrupted(id) ==
    /\ pc = "up"
    /\ Step
    /\ id \in DOMAIN clients
    /\ id \in Range(v2ray_list)
    /\ LET r == V2rayList_expire(v2ray_list, config_json, stop(clients[id], now), now)
       IN  /\ ~r.raised
           /\ config_json' = r.doc
    /\ clients' = NoClients
    /\ v2ray_list' = <<>>
    /\ pc' = "down"
    /\ last' = Did("stop_client_interrupted", id, "killed")
    /\ UNCHANGED <<now, clients_json>>

update_client(client) ==
    /\ pc = "up"
    /\ Step
    /\ clients' = put(clients, client.id, client)
    /\ clients_json' = save(clients')
    /\ last' = Did("update_client", client.id, "none")
    /\ UNCHANGED <<now, pc, v2ray_list, config_json>>

list_expired ==
    /\ pc = "up"
    /\ Step
    /\ clients' = refreshed(clients, now)
    /\ last' = Did("list_expired", "-", "none")
    /\ UNCHANGED <<now, pc, v2ray_list, config_json, clients_json>>

\* ClientManager.clear_expired at clock t: the records, the list, the
\* document and the metadata file it leaves
cleared(cl0, lst, doc, t) ==
    LET cl  == refreshed(cl0, t)
        ex  == expired_keys(cl0, t)
        r   == expire_each(ex, cl, lst, doc, t)
        cl2 == without(cl, {cl[k].id : k \in ex})
    IN  [clients |-> cl2, list |-> r.list, doc |-> r.doc, file |-> save(cl2)]

clear_expired ==
    /\ pc = "up"
    /\ Step
    /\ LET r == cleared(clients, v2ray_list, config_json, now)
       IN  /\ clients' = r.clients
           /\ v2ray_list' = r.list
           /\ config_json' = r.doc
           /\ clients_json' = r.file
    /\ last' = Did("clear_expired", "-", "none")
    /\ UNCHANGED <<now, pc>>

\* Menu.QUIT
Quit ==
    /\ pc = "up"
    /\ Step
    /\ pc' = "down"
    /\ clients' = NoClients
    /\ v2ray_list' = <<>>
    /\ last' = Did("quit", "-", "none")
    /\ UNCHANGED <<now, config_json, clients_json>>

Tick ==
    /\ Step
    /\ now' = now + TickStep
    /\ last' = Did("tick", "-", "none")
    /\ UNCHANGED <<pc, clients, v2ray_list, config_json, clients_json>>

AddClient == \E c \in InputClients(now) : add_client(c)
AddClientInterrupted == \E c \in InputClients(now) : add_client_interrupted(c)
ExtendClient == \E id \in Ids : \E delta \in Deltas : extend_client(id, delta)
StopClient == \E id \in Ids : stop_client(id)
StopClientCopy == \E c \in InputClients(now) : stop_client_copy(c)
StopClientInterrupted == \E id \in Ids : stop_client_interrupted(id)
UpdateClientNew == \E c \in InputClients(now) : update_client(c)
UpdateClientEdited ==
    \E id \in DOMAIN clients : \E c \in Edited(clients[id], now) : update_client(c)

Next ==
    \/ Construct
    \/ AddClient
    \/ AddClientInterrupted
    \/ ExtendClient
    \/ StopClient
    \/ StopClientCopy
    \/ StopClientInterrupted
    \/ UpdateClientNew
    \/ UpdateClientEdited
    \/ list_expired
    \/ clear_expired
    \/ Quit
    \/ Tick

Spec == Init /\ [][Next]_vars

TypeOK ==
    /\ pc \in {"down", "up"}
    /\ DOMAIN clients \subseteq Ids
    /\ Range(v2ray_list) \subseteq Ids

\* ------------------------------------------------------------------ claims
InList(id) == id \in Range(v2ray_list)
DocHas(doc, id) == \E k \in 1..Len(doc) : doc[k].id = id
InDoc(id) == DocHas(config_json, id)
\* the end_date a load of the metadata file gives the record of id
FileEndDate(id) == decode(clients_json[id], now).end_date
Stores == <<clients, v2ray_list, config_json, clients_json>>

\* C1: while the engine runs, every id in ProxyAccessList is a key of
\* MetadataStore.
C1_ListedIdsAreTracked ==
    pc = "up" => Range(v2ray_list) \subseteq DOMAIN clients

\* C2: while the engine runs, every MetadataStore record that is not expired
\* at the current clock (now <= end_date) has its id in ProxyAccessList.
C2_LiveRecordsAreListed ==
    pc = "up" =>
        \A k \in DOMAIN clients : now <= clients[k].end_date => InList(k)

\* C3: add_client with an id that is already a key of MetadataStore fails
\* with a duplicate-identity error and changes neither store, in memory or
\* on disk.
C3_DuplicateAddRejected ==
    [][(pc = "up" /\ last'.op = "add_client" /\ last'.id \in DOMAIN clients)
          => (last'.err = "DuplicateError" /\ Stores' = Stores)]_vars

\* C4: a revoke cut off between its two writes leaves the record expired in
\* the metadata file while its id is still in the proxy document; it never
\* leaves the id out of the document while the file's record is not expired.
C4_InterruptedRevokeKeepsEntry ==
    last.op = "stop_client_interrupted" =>
        /\ last.id \in DOMAIN clients_json
        /\ now > FileEndDate(last.id)
        /\ InDoc(last.id)

\* C5: an add_client cut off between its two writes leaves the id in the
\* proxy document and not in the metadata file, and the reconcile of the
\* next start leaves the id in both stores, in memory and on disk.
C5_InterruptedAddIsRepaired ==
    [][/\ last'.op = "add_client_interrupted" =>
            (DocHas(config_json', last'.id) /\ last'.id \notin DOMAIN clients_json')
       /\ (last.op = "add_client_interrupted" /\ last'.op = "construct") =>
            /\ last.id \in DOMAIN clients'
            /\ last.id \in Range(v2ray_list')
            /\ DocHas(config_json', last.id)
            /\ last.id \in DOMAIN clients_json']_vars

\* C6: after add_client(record) has returned, get(record.id) gives a record
\* with that id, and the id is in MetadataStore and ProxyAccessList, in
\* memory and in both files.
C6_AddedClientIsInBothStores ==
    (last.op = "add_client" /\ last.err = "none") =>
        /\ last.id \in DOMAIN clients
        /\ clients[last.id].id = last.id
        /\ InList(last.id)
        /\ InDoc(last.id)
        /\ last.id \in DOMAIN clients_json
        /\ clients_json[last.id].id = last.id

C6_Witness ==
    /\ last.op = "add_client"
    /\ last.err = "none"
    /\ clients[last.id].name = "n1"
    /\ InList(last.id)
    /\ InDoc(last.id)
    /\ last.id \in DOMAIN clients_json

\* C7: after stop_client on an id of MetadataStore no entry with that id is
\* left in ProxyAccessList, in memory or in the document, and get(id) still
\* gives the record, with is_expired true.
C7_RevokedIdLeavesTheList ==
    (last.op = "stop_client" /\ last.err = "none") =>
        /\ ~InList(last.id)
        /\ ~InDoc(last.id)
        /\ last.id \in DOMAIN clients
        /\ clients[last.id].is_expired

\* C8: extend_client(id, delta) adds exactly the caller's delta to the
\* record's duration, sets end_date to start_date + duration and leaves the
\* membership of ProxyAccessList alone.
C8_ExtendAddsTheDelta ==
    [][(last'.op = "extend_client" /\ last'.err = "none") =>
          /\ clients'[last'.id].duration = clients[last'.id].duration + last'.delta
          /\ clients'[last'.id].end_date =
                clients'[last'.id].start_date + clients'[last'.id].duration
          /\ v2ray_list' = v2ray_list
          /\ config_json' = config_json]_vars

\* C9: reconcile run again right after a reconcile, at the same clock,
\* changes neither store, in memory or on disk.
C9_ReconcileIsIdempotent ==
    last.op = "construct" =>
        sync(clients, v2ray_list, config_json, now) =
            [clients |-> clients, list |-> v2ray_list,
             doc |-> config_json, file |-> clients_json]

\* C10: reconcile gives every id of ProxyAccessList that MetadataStore lacks
\* a placeholder record keyed by the id, with start_date the time of the
\* reconcile and duration ONE_MONTH, and replaces no record MetadataStore
\* already has.
C10_ReconcileMakesPlaceholders ==
    [][last'.op = "construct" =>
          /\ \A id \in Range(V2rayList_load(config_json)) \ DOMAIN clients_json :
                /\ id \in DOMAIN clients'
                /\ clients'[id].id = id
                /\ clients'[id].start_date = now
                /\ clients'[id].duration = ONE_MONTH
                /\ id \in DOMAIN clients_json'
                /\ clients_json'[id].start_date = now
                /\ clients_json'[id].duration = ONE_MONTH
          /\ \A id \in DOMAIN clients_json :
                LET old == decode(clients_json[id], now)
                IN  /\ id \in DOMAIN clients'
                    /\ clients'[id] = update_expiration(old, now)
                    /\ clients_json'[id] = encode(update_expiration(old, now))]_vars

C10_Witness ==
    /\ last.op = "construct"
    /\ \E id \in DOMAIN clients :
          /\ clients[id].name = "No name"
          /\ clients[id].start_date = now
          /\ clients[id].duration = ONE_MONTH
          /\ InList(id)
    /\ \E id \in DOMAIN clients : clients[id].name = "n1"

\* C11: the placeholder reconcile makes for an id that only ProxyAccessList
\* holds has the level of that id's access entry in the proxy document.
C11_PlaceholderCopiesLevel ==
    [][last'.op = "construct" =>
          \A k \in 1..Len(config_json) :
              config_json[k].id \notin DOMAIN clients_json =>
                  /\ config_json[k].id \in DOMAIN clients'
                  /\ clients'[config_json[k].id].level = config_json[k].level]_vars

\* C12: after reconcile every MetadataStore record whose end_date is in the
\* past has its id out of ProxyAccessList, in memory and in the document, and
\* is still in MetadataStore with is_expired true; reconcile deletes no
\* record.
C12_ReconcileRevokesExpired ==
    [][last'.op = "construct" =>
          /\ DOMAIN clients_json \subseteq DOMAIN clients'
          /\ \A k \in DOMAIN clients' :
                now > clients'[k].end_date =>
                    /\ k \notin Range(v2ray_list')
                    /\ ~DocHas(config_json', k)
                    /\ clients'[k].is_expired]_vars

\* C13: a clear_expired called right after a clear_expired, at the same
\* clock, changes neither store, in memory or on disk.
C13_ClearExpiredIsIdempotent ==
    last.op = "clear_expired" =>
        cleared(clients, v2ray_list, config_json, now) =
            [clients |-> clients, list |-> v2ray_list,
             doc |-> config_json, file |-> clients_json]

\* a clear_expired that deleted the record of an id
C13_Witness ==
    /\ last.op = "clear_expired"
    /\ \E id \in Ids : id \notin DOMAIN clients /\ InList(id)
    /\ \E id \in Ids : id \in DOMAIN clients

\* the records of the metadata file, as a load at the current clock reads them
Loaded == json_to_client(clients_json, now)

\* C14: every record in the metadata file, written by reconcile or by a
\* lifecycle operation, has end_date = start_date + duration.
C14_PersistedEndDateIsDerived ==
    last.op \in {"construct", "add_client", "extend_client", "stop_client",
                 "update_client", "clear_expired"} =>
        \A k \in DOMAIN clients_json :
            clients_json[k].end_date =
                {clients_json[k].start_date + clients_json[k].duration}

\* C15: right after a load of the metadata file every record has
\* end_date = start_date + duration and is_expired = (now > end_date),
\* whatever end_date and is_expired the file held.
C15_LoadDiscardsCachedFields ==
    pc = "down" =>
        \A k \in DOMAIN Loaded :
            /\ Loaded[k].end_date = Loaded[k].start_date + Loaded[k].duration
            /\ Loaded[k].is_expired = (now > Loaded[k].end_date)

\* C16: extend_client or stop_client with an id MetadataStore lacks fails
\* with a not-found error, and a lifecycle operation that fails leaves both
\* stores as they were, in memory and on disk.
C16_FailedCallChangesNothing ==
    [][/\ (last'.op \in {"extend_client", "stop_client"}
             /\ last'.id \notin DOMAIN clients) => last'.err = "KeyError"
       /\ last'.err \in {"KeyError", "ValueError"} => Stores' = Stores]_vars

\* C17: V2rayList.expire for an id that is not in the list returns without
\* error and leaves list and document unchanged, whatever the record; and
\* V2rayList.add for an id already in the list leaves both unchanged.
C17_AbsentRemoveAndPresentAddAreNoOps ==
    [][/\ (last'.op = "stop_client" /\ last'.id \in DOMAIN clients
             /\ ~InList(last'.id))
          => /\ last'.err = "none"
             /\ v2ray_list' = v2ray_list
             /\ config_json' = config_json
       /\ (last'.op = "add_client" /\ InList(last'.id))
          => /\ v2ray_list' = v2ray_list
             /\ config_json' = config_json]_vars

\* the records the engine knows before a step: the ones in memory while it
\* runs, the ones a load of the metadata file gives while it is down
Known == IF pc = "up" THEN clients ELSE Loaded

\* C18: once a record's end_date has passed, its id is out of ProxyAccessList
\* when the next construction or lifecycle operation (add_client,
\* extend_client, stop_client, update_client, clear_expired) completes.
C18_NextOperationEnforcesExpiry ==
    [][(/\ last'.op \in {"construct", "add_client", "extend_client",
                         "stop_client", "update_client", "clear_expired"}
        /\ last'.err = "none")
       => \A k \in DOMAIN Known :
            (/\ now > Known[k].end_date
             /\ k \in DOMAIN clients' => now > clients'[k].end_date)
            => k \notin Range(v2ray_list')]_vars

\* C19: while the engine runs, for every id in both stores the level of the
\* access entry equals the level of the MetadataStore record.
C19_EntryLevelMatchesRecord ==
    pc = "up" => \A k \in 1..Len(config_json) :
        config_json[k].id \in DOMAIN clients
          => config_json[k].level = clients[config_json[k].id].level

\* C20: while the engine runs, after load and after every V2rayList.add and
\* V2rayList.expire call, raising ones included, the in-memory id sequence
\* equals the id sequence of the document's access entries, element for
\* element, also when the document started with a repeated id.
C20_ListMirrorsDocument ==
    pc = "up" => v2ray_list = V2rayList_load(config_json)

\* stop_client has removed one of two entries of a repeated id, after
\* add_client appended an entry with a level the initial documents lack
C20_Witness ==
    /\ pc = "up"
    /\ last.op = "stop_client"
    /\ last.err = "none"
    /\ InList(last.id)
    /\ \E k \in 1..Len(config_json) : config_json[k].level \notin ForeignLevels

====
